---------------------------- MODULE Spec2Model ----------------------------
(***************************************************************************)
(* Model of the request handlers of src/dashboard.py (DashboardHandler):   *)
(* GET /api/status (serve_status, get_module_commits, get_last_activity),  *)
(* GET /api/git (serve_git_activity), GET / and the 404 route, served by   *)
(* run_server.                                                             *)
(*                                                                         *)
(* Python strings are modelled as sequences of characters, a character     *)
(* being a one-character TLA+ string (the status glyphs, which are single  *)
(* code points, carry a name such as "RED").  The regular expression, the  *)
(* whitespace split, strip() and int() are computed character by          *)
(* character, as the library computes them.                                *)
(***************************************************************************)
EXTENDS Integers, Sequences, FiniteSets, TLC

VARIABLES
    server,     \* "running" | "stopped": run_server's serve_forever loop
    pc,         \* position of the handler: "idle" | "status_loop" | "done"
    path,       \* self.path of the request being handled ("" when idle)
    docRead,    \* what open()/read() of MODULE_STATUS.md gave this request
    content,    \* serve_status: the text read from the document
    matches,    \* serve_status: re.findall's result, a sequence of 5 groups
    idx,        \* serve_status: index of the next match the loop handles
    probes,     \* the repository state each loop iteration's probes met
    modules,    \* serve_status: the dict being built, id -> record
    gitRun,     \* what subprocess.run(git log ...) gave this request
    commits,    \* serve_git_activity: the list being returned
    wrote,      \* whether wfile.write of the body succeeded
    statuses,   \* status codes passed to send_response / send_error
    body,       \* the payload handed to the client
    prev        \* history: the path and statuses of the previous request

vars == <<server, pc, path, docRead, content, matches, idx, probes, modules,
          gitRun, commits, wrote, statuses, body, prev>>

---------------------------------------------------------------------------
(* Bounds of the model. *)

\* Longest document, in rows.
MaxRows == 2

---------------------------------------------------------------------------
(* Characters and the string functions of the Python library. *)

Digits == {"0", "1", "2", "3", "4", "5", "6", "7", "8", "9"}

DigitVal(c) ==
    CASE c = "0" -> 0 [] c = "1" -> 1 [] c = "2" -> 2 [] c = "3" -> 3
      [] c = "4" -> 4 [] c = "5" -> 5 [] c = "6" -> 6 [] c = "7" -> 7
      [] c = "8" -> 8 [] c = "9" -> 9

\* str.isspace() for the characters that occur.
Whitespace == {" ", "\n", "\t"}

\* s[i:j] of Python with 1-based inclusive indices i..j.
Sub(s, i, j) == IF j < i THEN <<>> ELSE SubSeq(s, i, j)

\* s[:n] of Python: the first n characters, all of s when it is shorter.
Prefix(s, n) == Sub(s, 1, IF n < Len(s) THEN n ELSE Len(s))

RECURSIVE SkipWs(_, _)
\* First index >= i of s that holds no whitespace, Len(s)+1 when there is none.
SkipWs(s, i) ==
    IF i > Len(s) THEN Len(s) + 1
    ELSE IF s[i] \in Whitespace THEN SkipWs(s, i + 1) ELSE i

RECURSIVE WordEnd(_, _)
\* First index >= i of s that holds whitespace, Len(s)+1 when there is none.
WordEnd(s, i) ==
    IF i > Len(s) THEN Len(s) + 1
    ELSE IF s[i] \in Whitespace THEN i ELSE WordEnd(s, i + 1)

RECURSIVE LastNonWs(_, _)
\* Last index <= j of s that holds no whitespace, 0 when there is none.
LastNonWs(s, j) ==
    IF j < 1 THEN 0
    ELSE IF s[j] \in Whitespace THEN LastNonWs(s, j - 1) ELSE j

\* str.strip(): leading and trailing whitespace removed.
Strip(s) == Sub(s, SkipWs(s, 1), LastNonWs(s, Len(s)))

RECURSIVE DigitsToInt(_, _)
\* The decimal value of the digit string s, acc being the value so far.
DigitsToInt(s, acc) ==
    IF s = <<>> THEN acc
    ELSE DigitsToInt(Tail(s), 10 * acc + DigitVal(Head(s)))

\* Whether int(s) accepts s: digits only, after stripping whitespace.
IsInt(s) ==
    /\ Strip(s) # <<>>
    /\ \A k \in 1..Len(Strip(s)) : Strip(s)[k] \in Digits

\* int(s) for an accepted s.
ParseInt(s) == DigitsToInt(Strip(s), 0)

RECURSIVE SplitWhitespace(_, _, _)
\* str.split(maxsplit=n) from index i on: words separated by runs of
\* whitespace; once n words are taken, the rest of the string, its leading
\* whitespace skipped and its trailing whitespace kept, is the last part.
SplitWhitespace(s, i, n) ==
    LET a == SkipWs(s, i) IN
    IF a > Len(s) THEN <<>>
    ELSE IF n = 0 THEN <<Sub(s, a, Len(s))>>
    ELSE LET b == WordEnd(s, a) IN
         <<Sub(s, a, b - 1)>> \o SplitWhitespace(s, b, n - 1)

RECURSIVE LineEnd(_, _)
\* First index >= i of s that holds a line feed, Len(s)+1 when there is none.
LineEnd(s, i) ==
    IF i > Len(s) THEN Len(s) + 1
    ELSE IF s[i] = "\n" THEN i ELSE LineEnd(s, i + 1)

RECURSIVE SplitLines(_, _)
\* str.split('\n') from index i on: the pieces between line feeds, the last
\* one (empty after a trailing line feed) included.
SplitLines(s, i) ==
    LET e == LineEnd(s, i) IN
    IF e > Len(s) THEN <<Sub(s, i, Len(s))>>
    ELSE <<Sub(s, i, e - 1)>> \o SplitLines(s, e + 1)

RECURSIVE JoinLines(_)
\* Each line followed by a line feed.
JoinLines(lines) ==
    IF lines = <<>> THEN <<>>
    ELSE Head(lines) \o <<"\n">> \o JoinLines(Tail(lines))

Min(S) == CHOOSE x \in S : \A y \in S : x <= y

---------------------------------------------------------------------------
(* The status document, MODULE_STATUS.md: the input of serve_status. *)

\* The characters of the class [...] of the pattern: the status glyphs.
GlyphClass == {"RED", "YELLOW", "GREEN", "BLUE", "WARN", "VS16", "CROSS"}

\* The lines a document is made of here: table rows
\*   | <id> | <name> | <glyph> <status_text> | <progress>% |
\* whose name and status text cells are padded with `pad` blanks, as aligned
\* tables are, and a line of prose.  Two rows share the id 1, one row has a
\* percentage above 100, one has a glyph outside the class.
DocRows ==
    { [kind |-> "row", id |-> <<"1">>, name |-> <<"A", "b">>,
       glyph |-> "YELLOW", text |-> <<"O", "k">>, pct |-> 45,
       pad |-> 0],
      [kind |-> "row", id |-> <<"1">>, name |-> <<"C", " ", "d">>,
       glyph |-> "RED", text |-> <<"N", "o">>, pct |-> 150,
       pad |-> 2],
      [kind |-> "row", id |-> <<"1", "2">>, name |-> <<"A", "b">>,
       glyph |-> "GREEN", text |-> <<"O", "k">>, pct |-> 100,
       pad |-> 0],
      [kind |-> "row", id |-> <<"2">>, name |-> <<"E">>,
       glyph |-> "STAR", text |-> <<"O", "k">>, pct |-> 7,
       pad |-> 0],
      [kind |-> "prose", id |-> <<>>, name |-> <<"#", " ", "M", "o", "d">>,
       glyph |-> "", text |-> <<>>, pct |-> 0, pad |-> 0] }

Blanks(n) == [k \in 1..n |-> " "]

DigitChar(n) == CHOOSE c \in Digits : DigitVal(c) = n

RECURSIVE Decimal(_)
\* The decimal digits of the natural number n, as the document writes it.
Decimal(n) ==
    IF n < 10 THEN <<DigitChar(n)>>
    ELSE Decimal(n \div 10) \o <<DigitChar(n % 10)>>

Sep == <<" ", "|", " ">>

\* The text of one line of the document.
RowText(r) ==
    IF r.kind = "prose" THEN r.name
    ELSE <<"|", " ">> \o r.id \o Sep \o r.name \o Blanks(r.pad) \o Sep
         \o <<r.glyph, " ">> \o r.text \o Blanks(r.pad) \o Sep
         \o Decimal(r.pct) \o <<"%", " ", "|">>

\* The documents: up to MaxRows lines.
Documents == UNION { [1..n -> DocRows] : n \in 0..MaxRows }

\* f.read(): the lines, each ended by a line feed.
DocText(rows) == JoinLines([k \in 1..Len(rows) |-> RowText(rows[k])])

\* What open() and read() can give: the text, or an OSError.
DocReads ==
    { [readable |-> FALSE, rows |-> <<>>] }
    \cup { [readable |-> TRUE, rows |-> d] : d \in Documents }

---------------------------------------------------------------------------
(* re.findall(pattern, content) for the pattern of serve_status:           *)
(*   \| (\d+) \| (.+?) \| ([glyphs]) (.+?) \| (\d+)%                       *)

\* Whether the literal lit stands in s at index i.
Lit(s, i, lit) ==
    /\ i + Len(lit) - 1 <= Len(s)
    /\ \A k \in 1..Len(lit) : s[i + k - 1] = lit[k]

RECURSIVE DigitRunEnd(_, _)
\* \d+ is greedy: the first index >= i of s that holds no digit.
DigitRunEnd(s, i) ==
    IF i > Len(s) THEN Len(s) + 1
    ELSE IF s[i] \in Digits THEN DigitRunEnd(s, i + 1) ELSE i

\* "." matches any character but a line feed.
NoLineFeed(s, i, j) == \A k \in i..j : s[k] # "\n"

\* The ends f (exclusive) of the status text starting at t0 after which
\* " \| (\d+)%" matches.
TextEnds(s, t0) ==
    { f \in (t0 + 1)..Len(s) :
        /\ NoLineFeed(s, t0, f - 1)
        /\ Lit(s, f, Sep)
        /\ DigitRunEnd(s, f + 3) > f + 3
        /\ Lit(s, DigitRunEnd(s, f + 3), <<"%">>) }

\* The ends e (exclusive) of the name starting at n0 after which the rest
\* of the pattern, " \| ([glyphs]) (.+?) \| (\d+)%", matches.
NameEnds(s, n0) ==
    { e \in (n0 + 1)..Len(s) :
        /\ NoLineFeed(s, n0, e - 1)
        /\ Lit(s, e, Sep)
        /\ e + 4 <= Len(s)
        /\ s[e + 3] \in GlyphClass
        /\ s[e + 4] = " "
        /\ TextEnds(s, e + 5) # {} }

\* The match of the pattern that starts at index i, if any.  The lazy
\* groups take the shortest name, then the shortest status text.
MatchAt(s, i) ==
    LET b  == DigitRunEnd(s, i + 2)
        n0 == b + 3
    IN  IF /\ Lit(s, i, <<"|", " ">>)
           /\ b > i + 2
           /\ Lit(s, b, Sep)
           /\ NameEnds(s, n0) # {}
        THEN LET e  == Min(NameEnds(s, n0))
                 t0 == e + 5
                 f  == Min(TextEnds(s, t0))
                 p1 == DigitRunEnd(s, f + 3)
             IN  [found  |-> TRUE,
                  groups |-> << Sub(s, i + 2, b - 1), Sub(s, n0, e - 1),
                                <<s[e + 3]>>, Sub(s, t0, f - 1),
                                Sub(s, f + 3, p1 - 1) >>,
                  end    |-> p1 + 1]
        ELSE [found |-> FALSE, groups |-> <<>>, end |-> i]

RECURSIVE FindAllFrom(_, _)
\* The non-overlapping matches from index i on, left to right.
FindAllFrom(s, i) ==
    IF i > Len(s) THEN <<>>
    ELSE LET m == MatchAt(s, i) IN
         IF m.found THEN <<m.groups>> \o FindAllFrom(s, m.end)
         ELSE FindAllFrom(s, i + 1)

FindAll(s) == FindAllFrom(s, 1)

---------------------------------------------------------------------------
(* The module repositories, ../dawg-module-<id>: the inputs of the probes. *)

Never == <<"N", "e", "v", "e", "r">>

\* A run of git that could not be spawned: subprocess.run raises.
SpawnFailure == [spawned |-> FALSE, returncode |-> 0, stdout |-> <<>>]

\* A run of git that exited with `rc` having printed `out`.
Ran(rc, out) == [spawned |-> TRUE, returncode |-> rc, stdout |-> out]

ThreeCommits == <<"3", "\n">>

TwoHoursAgo ==
    <<"2", " ", "h", "o", "u", "r", "s", " ", "a", "g", "o", "\n">>

\* What a loop iteration's two probes can meet: whether the directory
\* exists, and the runs of `git rev-list --count HEAD` and of
\* `git log -1 --format=%ar` in it.
RepoStates ==
    { [exists |-> FALSE, revlist |-> SpawnFailure, log |-> SpawnFailure],
      [exists |-> TRUE, revlist |-> SpawnFailure, log |-> SpawnFailure],
      [exists |-> TRUE, revlist |-> Ran(128, <<>>), log |-> Ran(128, <<>>)],
      [exists |-> TRUE, revlist |-> Ran(0, ThreeCommits),
       log |-> Ran(0, TwoHoursAgo)],
      [exists |-> TRUE, revlist |-> Ran(0, <<>>), log |-> Ran(0, <<>>)],
      [exists |-> TRUE, revlist |-> Ran(128, <<>>),
       log |-> Ran(0, TwoHoursAgo)],
      [exists |-> TRUE, revlist |-> Ran(0, ThreeCommits),
       log |-> Ran(128, <<>>)] }

\* get_module_commits: the count git printed; 0 when the directory is
\* missing, git exits non-zero, or anything raises (the spawn, int()).
get_module_commits(exists, run) ==
    IF exists /\ run.spawned /\ run.returncode = 0 /\ IsInt(run.stdout)
    THEN ParseInt(run.stdout)
    ELSE 0

\* get_last_activity: what git printed, stripped; "Never" when the directory
\* is missing, git exits non-zero, or the spawn raises.
get_last_activity(exists, run) ==
    IF exists /\ run.spawned
    THEN IF run.returncode = 0 THEN Strip(run.stdout) ELSE Never
    ELSE Never

---------------------------------------------------------------------------
(* The history of the aggregate repository: the input of                   *)
(* serve_git_activity.                                                     *)

\* The -15 of the git log command.
HistoryLimit == 15

\* The abbreviated hash git prints for the k-th commit of its output.
HashOf(k) == <<"c", "0", "f", "f", "e", DigitChar(k \div 10), DigitChar(k % 10)>>

FixA == <<"f", "i", "x", " ", "a">>

\* A line of the output that carries the k-th commit, behind the graph
\* columns `graph`.
CommitRow(graph, k) ==
    [kind |-> "commit", graph |-> graph, hash |-> HashOf(k), subject |-> FixA]

\* A line of the output that carries graph connectors only.
EdgeRow(graph) ==
    [kind |-> "edge", graph |-> graph, hash |-> <<>>, subject |-> <<>>]

\* n commits of a linear history, numbered from k + 1: "* <hash> <subject>".
Linear(k, n) == [j \in 1..n |-> CommitRow(<<"*">>, k + j)]

\* A merge of one branch, as --graph draws it (4 commits).
SimpleMerge ==
    << CommitRow(<<"*", " ", " ">>, 1),
       EdgeRow(<<"|", "\\", " ", " ">>),
       CommitRow(<<"|", " ", "*">>, 2),
       CommitRow(<<"*", " ", "|">>, 3),
       EdgeRow(<<"|", "/", " ", " ">>),
       CommitRow(<<"*">>, 4) >>

\* A merge into a branch that is merged in turn (7 commits).
NestedMerge ==
    << CommitRow(<<"*", " ", " ">>, 1),
       EdgeRow(<<"|", "\\", " ", " ">>),
       CommitRow(<<"|", " ", "*", " ", " ">>, 2),
       EdgeRow(<<"|", " ", "|", "\\", " ", " ">>),
       CommitRow(<<"|", " ", "|", " ", "*">>, 3),
       CommitRow(<<"|", " ", "*", " ", "|">>, 4),
       EdgeRow(<<"|", " ", "|", "/", " ", " ">>),
       CommitRow(<<"|", " ", "*">>, 5),
       CommitRow(<<"*", " ", "|">>, 6),
       EdgeRow(<<"|", "/", " ", " ">>),
       CommitRow(<<"*">>, 7) >>

\* The outputs of git log --all --oneline --graph --decorate -15: at most
\* HistoryLimit commits, linear or below a merge.
GitLogs ==
    { Linear(0, n) : n \in 0..HistoryLimit }
    \cup { SimpleMerge \o Linear(4, n) : n \in 0..(HistoryLimit - 4) }
    \cup { NestedMerge \o Linear(7, n) : n \in 0..(HistoryLimit - 7) }

\* The text of one line of git's output.
LogLine(r) ==
    IF r.kind = "edge" THEN r.graph
    ELSE r.graph \o <<" ">> \o r.hash \o <<" ">> \o r.subject

\* result.stdout for the output `log`.
LogText(log) == JoinLines([k \in 1..Len(log) |-> LogLine(log[k])])

\* What subprocess.run(['git', 'log', ...]) can give: no process at all, a
\* non-zero exit (with nothing printed, or after a first line), or the log.
GitRuns ==
    { [spawned |-> FALSE, returncode |-> 0, log |-> <<>>],
      [spawned |-> TRUE, returncode |-> 128, log |-> <<>>],
      [spawned |-> TRUE, returncode |-> 128, log |-> Linear(0, 1)] }
    \cup { [spawned |-> TRUE, returncode |-> 0, log |-> g] : g \in GitLogs }

\* One entry of the 'commits' list: the line's second part cut to 7
\* characters, and its third part, or the line when it has two parts.
GitEntry(line) ==
    LET parts == SplitWhitespace(line, 1, 2) IN
    [hash    |-> IF Len(parts) > 1 THEN Prefix(parts[2], 7) ELSE <<>>,
     message |-> IF Len(parts) > 2 THEN parts[3] ELSE line,
     time    |-> <<>>]

\* Whether the loop of serve_git_activity appends an entry for the line.
GitLineKept(line) ==
    /\ Strip(line) # <<>>
    /\ Len(SplitWhitespace(line, 1, 2)) >= 2

RECURSIVE GitEntries(_)
\* The loop of serve_git_activity over the lines of the output.
GitEntries(lines) ==
    IF lines = <<>> THEN <<>>
    ELSE (IF GitLineKept(Head(lines)) THEN <<GitEntry(Head(lines))>> ELSE <<>>)
         \o GitEntries(Tail(lines))

---------------------------------------------------------------------------
(* The handlers. *)

EmptyDict == [k \in {} |-> 0]

NoRun == [spawned |-> FALSE, returncode |-> 0, log |-> <<>>]

NoRead == [readable |-> FALSE, rows |-> <<>>]

\* Payloads: nothing, the page, the two JSON objects, send_error's page.
NoBody == [kind |-> "none", modules |-> EmptyDict, commits |-> <<>>]

HtmlBody == [kind |-> "html", modules |-> EmptyDict, commits |-> <<>>]

ErrorBody == [kind |-> "error", modules |-> EmptyDict, commits |-> <<>>]

StatusBody(m) == [kind |-> "status", modules |-> m, commits |-> <<>>]

GitBody(c) == [kind |-> "git", modules |-> EmptyDict, commits |-> c]

\* Put as dict.setdefault would do it: an old key keeps its value.
PutIfAbsent(d, k, v) ==
    [x \in DOMAIN d \cup {k} |-> IF x \in DOMAIN d THEN d[x] ELSE v]

\* d[k] = v of a Python dict: a new key is added, an old one overwritten.
Put(d, k, v) == [x \in DOMAIN d \cup {k} |-> IF x = k THEN v ELSE d[x]]

\* The record serve_status builds from one match and its two probes.
ModuleRecord(m, repo) ==
    [name        |-> Strip(m[2]),
     status      |-> m[3],
     status_text |-> Strip(m[4]),
     progress    |-> ParseInt(m[5]),
     commits     |-> get_module_commits(repo.exists, repo.revlist),
     lastActive  |-> get_last_activity(repo.exists, repo.log)]

Init ==
    /\ server = "running"
    /\ pc = "idle"
    /\ path = ""
    /\ docRead = NoRead
    /\ content = <<>>
    /\ matches = <<>>
    /\ idx = 1
    /\ probes = <<>>
    /\ modules = EmptyDict
    /\ gitRun = NoRun
    /\ commits = <<>>
    /\ wrote = FALSE
    /\ statuses = <<>>
    /\ body = NoBody
    /\ prev = [path |-> "", statuses |-> <<>>]

\* do_GET, path '/': serve_dashboard sends the page.
ServeDashboard ==
    /\ server = "running" /\ pc = "idle"
    /\ path' = "/"
    /\ \E w \in BOOLEAN :
         /\ wrote' = w
         /\ body' = IF w THEN HtmlBody ELSE NoBody
    /\ statuses' = <<200>>
    /\ pc' = "done"
    /\ UNCHANGED <<server, docRead, content, matches, idx, probes, modules,
                   gitRun, commits, prev>>

\* do_GET, any other path: send_error(404).
NotFound ==
    /\ server = "running" /\ pc = "idle"
    /\ path' = "/api/unknown"
    /\ statuses' = <<404>>
    /\ body' = ErrorBody
    /\ pc' = "done"
    /\ UNCHANGED <<server, docRead, content, matches, idx, probes, modules,
                   gitRun, commits, wrote, prev>>

\* ServeStatusOpen with the OSError swallowed: an unreadable document is
\* read as an empty one.
ServeStatusOpenSwallowing ==
    /\ server = "running" /\ pc = "idle"
    /\ path' = "/api/status"
    /\ \E d \in DocReads :
         /\ docRead' = d
         /\ content' = DocText(d.rows)
         /\ matches' = FindAll(DocText(d.rows))
         /\ pc' = "status_loop"
         /\ UNCHANGED <<statuses, body>>
    /\ UNCHANGED <<server, idx, probes, modules, gitRun, commits, wrote, prev>>

\* ServeStatusOpen with the failure remembered: once a request for the
\* status ended in 500, the next one is answered 500 unread.
ServeStatusOpenCaching ==
    /\ server = "running" /\ pc = "idle"
    /\ path' = "/api/status"
    /\ \E d \in DocReads :
         /\ docRead' = d
         /\ IF d.readable
               /\ prev # [path |-> "/api/status", statuses |-> <<500>>]
            THEN /\ content' = DocText(d.rows)
                 /\ matches' = FindAll(DocText(d.rows))
                 /\ pc' = "status_loop"
                 /\ UNCHANGED <<statuses, body>>
            ELSE /\ statuses' = <<500>>
                 /\ body' = ErrorBody
                 /\ pc' = "done"
                 /\ UNCHANGED <<content, matches>>
    /\ UNCHANGED <<server, idx, probes, modules, gitRun, commits, wrote, prev>>

\* serve_status, up to the loop: the document is opened and read, and the
\* pattern applied; an OSError goes to the handler's except clause.
ServeStatusOpen ==
    /\ server = "running" /\ pc = "idle"
    /\ path' = "/api/status"
    /\ \E d \in DocReads :
         /\ docRead' = d
         /\ IF d.readable
            THEN /\ content' = DocText(d.rows)
                 /\ matches' = FindAll(DocText(d.rows))
                 /\ pc' = "status_loop"
                 /\ UNCHANGED <<statuses, body>>
            ELSE /\ statuses' = <<500>>
                 /\ body' = ErrorBody
                 /\ pc' = "done"
                 /\ UNCHANGED <<content, matches>>
    /\ UNCHANGED <<server, idx, probes, modules, gitRun, commits, wrote, prev>>

\* ServeStatusLoop with probes that lack their except clause: a git that
\* cannot be spawned raises into serve_status, which answers 500.
ServeStatusLoopPropagating ==
    /\ pc = "status_loop" /\ idx <= Len(matches)
    /\ \E repo \in RepoStates :
         /\ probes' = Append(probes, repo)
         /\ IF repo.exists /\ ~repo.revlist.spawned
            THEN /\ statuses' = <<500>>
                 /\ body' = ErrorBody
                 /\ pc' = "done"
                 /\ UNCHANGED modules
            ELSE /\ modules' = Put(modules, matches[idx][1],
                                   ModuleRecord(matches[idx], repo))
                 /\ UNCHANGED <<statuses, body, pc>>
    /\ idx' = idx + 1
    /\ UNCHANGED <<server, path, docRead, content, matches, gitRun,
                   commits, wrote, prev>>

\* serve_status, one iteration of the loop over the matches: the module's
\* repository is probed and the record stored under the module's id.
ServeStatusLoop ==
    /\ pc = "status_loop" /\ idx <= Len(matches)
    /\ \E repo \in RepoStates :
         /\ probes' = Append(probes, repo)
         /\ modules' = Put(modules, matches[idx][1],
                           ModuleRecord(matches[idx], repo))
    /\ idx' = idx + 1
    /\ UNCHANGED <<server, pc, path, docRead, content, matches, gitRun,
                   commits, wrote, statuses, body, prev>>

\* serve_status, after the loop: 200 and the JSON object; when writing the
\* body raises, the except clause calls send_error(500).
ServeStatusRespond ==
    /\ pc = "status_loop" /\ idx > Len(matches)
    /\ \E w \in BOOLEAN :
         /\ wrote' = w
         /\ statuses' = IF w THEN <<200>> ELSE <<200, 500>>
         /\ body' = IF w THEN StatusBody(modules) ELSE ErrorBody
    /\ pc' = "done"
    /\ UNCHANGED <<server, path, docRead, content, matches, idx, probes,
                   modules, gitRun, commits, prev>>

\* serve_git_activity: git log is run and its output parsed; a failure to
\* spawn goes to the except clause, the return code is not looked at.
ServeGitActivity ==
    /\ server = "running" /\ pc = "idle"
    /\ path' = "/api/git"
    /\ \E run \in GitRuns, w \in BOOLEAN :
         /\ gitRun' = run
         /\ IF run.spawned
            THEN /\ commits' = GitEntries(SplitLines(LogText(run.log), 1))
                 /\ wrote' = w
                 /\ statuses' = IF w THEN <<200>> ELSE <<200, 500>>
                 /\ body' = IF w THEN GitBody(commits') ELSE ErrorBody
            ELSE /\ w
                 /\ statuses' = <<500>>
                 /\ body' = ErrorBody
                 /\ UNCHANGED <<commits, wrote>>
    /\ pc' = "done"
    /\ UNCHANGED <<server, docRead, content, matches, idx, probes, modules,
                   prev>>

\* The handler returns: its locals are gone, the server waits for the next
\* request.
Finish ==
    /\ pc = "done"
    /\ pc' = "idle"
    /\ prev' = [path |-> path, statuses |-> statuses]
    /\ path' = ""
    /\ docRead' = NoRead
    /\ content' = <<>>
    /\ matches' = <<>>
    /\ idx' = 1
    /\ probes' = <<>>
    /\ modules' = EmptyDict
    /\ gitRun' = NoRun
    /\ commits' = <<>>
    /\ wrote' = FALSE
    /\ statuses' = <<>>
    /\ body' = NoBody
    /\ UNCHANGED server

\* run_server: Ctrl+C ends serve_forever.
KeyboardInterrupt ==
    /\ server = "running" /\ pc = "idle"
    /\ server' = "stopped"
    /\ UNCHANGED <<pc, path, docRead, content, matches, idx, probes, modules,
                   gitRun, commits, wrote, statuses, body, prev>>

Next ==
    \/ ServeDashboard
    \/ NotFound
    \/ ServeStatusOpen
    \/ ServeStatusLoop
    \/ ServeStatusRespond
    \/ ServeGitActivity
    \/ Finish
    \/ KeyboardInterrupt

Spec == Init /\ [][Next]_vars

---------------------------------------------------------------------------
(* What the properties below read: the request just handled and its        *)
(* inputs.                                                                 *)

\* The handler of GET /api/status has finished.
StatusDone == pc = "done" /\ path = "/api/status"

\* The handler of GET /api/git has finished.
GitDone == pc = "done" /\ path = "/api/git"

\* A line of the document that is a table row with a glyph of the class.
IsTableRow(r) == r.kind = "row" /\ r.glyph \in GlyphClass

\* The rows of the document read by this request that match the pattern,
\* in document order.
TableRows == SelectSeq(docRead.rows, IsTableRow)

\* Whether k is the last of the matching rows that carries its id.
LastOfItsId(rows, k) ==
    \A j \in (k + 1)..Len(rows) : rows[j].id # rows[k].id

\* Whether a record carries the id-independent fields of a row.
Carries(rec, row) ==
    /\ rec.name = row.name
    /\ rec.status = <<row.glyph>>
    /\ rec.status_text = row.text
    /\ rec.progress = row.pct

\* Whether the probe behind 'commits' met a missing directory or a git that
\* did not start or exited non-zero.
CountProbeFailed(repo) ==
    \/ ~repo.exists
    \/ ~repo.revlist.spawned
    \/ repo.revlist.returncode # 0

\* The same for the probe behind 'lastActive'.
ActivityProbeFailed(repo) ==
    \/ ~repo.exists
    \/ ~repo.log.spawned
    \/ repo.log.returncode # 0

\* The lines of git's output that carry a commit.
IsCommitRow(r) == r.kind = "commit"

CommitRows == SelectSeq(gitRun.log, IsCommitRow)

\* The characters --graph draws its columns with.
GraphChars == {"*", "|", "\\", "/", "_", " "}

---------------------------------------------------------------------------
(* C1 *)

\* C1: when the status document cannot be opened or read, GET /api/status
\* answers 500 and nothing else, and what it hands to the client is the
\* error page, never a snapshot (no 'modules' object, partial or empty).
C1_UnreadableDocumentIs500 ==
    (StatusDone /\ ~docRead.readable) =>
        /\ statuses = <<500>>
        /\ body = ErrorBody
        /\ body.kind # "status"

\* C1, witness: a request for /api/status that met an unreadable document
\* has been answered.
C1_Witness ==
    /\ StatusDone
    /\ ~docRead.readable
    /\ statuses = <<500>>

---------------------------------------------------------------------------
(* C2 *)

\* C2: with a readable document, every matching row's module is in the
\* snapshot and the first status sent is 200, a 500 following only when
\* writing the body failed; and a module whose probe met a missing
\* directory or a failed git has commits 0, respectively lastActive "Never".
C2_ProbeFailureDegrades ==
    (StatusDone /\ docRead.readable) =>
        /\ Len(probes) = Len(TableRows)
        /\ statuses = IF wrote THEN <<200>> ELSE <<200, 500>>
        /\ wrote => body.kind = "status" /\ body.modules = modules
        /\ \A k \in 1..Len(TableRows) :
             /\ TableRows[k].id \in DOMAIN modules
             /\ (LastOfItsId(TableRows, k) /\ CountProbeFailed(probes[k]))
                   => modules[TableRows[k].id].commits = 0
             /\ (LastOfItsId(TableRows, k) /\ ActivityProbeFailed(probes[k]))
                   => modules[TableRows[k].id].lastActive = Never

\* C2, witness: a snapshot was sent with 200 in which one module's
\* directory was missing and another's git exited non-zero.
C2_Witness ==
    /\ StatusDone
    /\ statuses = <<200>>
    /\ body.kind = "status"
    /\ \E k, j \in 1..Len(probes) :
         /\ ~probes[k].exists
         /\ probes[j].exists
         /\ probes[j].revlist.spawned /\ probes[j].revlist.returncode # 0
         /\ probes[j].log.spawned /\ probes[j].log.returncode # 0
         /\ TableRows[k].id # TableRows[j].id
         /\ body.modules[TableRows[k].id].lastActive = Never
         /\ body.modules[TableRows[j].id].commits = 0

---------------------------------------------------------------------------
(* C3 *)

\* C3: every module record of a snapshot has a progress in 0..100, whatever
\* the percentage the row carries.
C3_ProgressInRange ==
    (StatusDone /\ body.kind = "status") =>
        \A id \in DOMAIN body.modules :
            body.modules[id].progress \in 0..100

---------------------------------------------------------------------------
(* C4 *)

\* C4, as claimed: every matching row yields a record of its own that
\* carries its fields, so the snapshot has as many records as the document
\* has matching rows, also when two rows share an id.
C4_OneRecordPerRow ==
    (StatusDone /\ body.kind = "status") =>
        /\ Cardinality(DOMAIN body.modules) = Len(TableRows)
        /\ \A k \in 1..Len(TableRows) :
             /\ TableRows[k].id \in DOMAIN body.modules
             /\ Carries(body.modules[TableRows[k].id], TableRows[k])

\* C4, amended: the snapshot has exactly one record per id among the
\* matching rows, and the record carries the fields of the last matching
\* row with that id; the earlier rows with that id leave no record.
C4_OneRecordPerId ==
    (StatusDone /\ body.kind = "status") =>
        /\ DOMAIN body.modules = { TableRows[k].id : k \in 1..Len(TableRows) }
        /\ \A k \in 1..Len(TableRows) :
             LastOfItsId(TableRows, k)
                => Carries(body.modules[TableRows[k].id], TableRows[k])

\* C4, witness: a snapshot was sent for a document in which two matching
\* rows with different fields share an id.
C4_Witness ==
    /\ StatusDone
    /\ body.kind = "status"
    /\ Len(TableRows) = 2
    /\ TableRows[1].id = TableRows[2].id
    /\ TableRows[1].name # TableRows[2].name
    /\ Cardinality(DOMAIN body.modules) = 1

---------------------------------------------------------------------------
(* C5 *)

\* C5: the 'commits' list of /api/git has one entry per commit of git's
\* output, hence at most 15, connector lines of the graph included in the
\* output or not.
C5_OneEntryPerCommit ==
    (GitDone /\ gitRun.spawned /\ gitRun.returncode = 0
       /\ body.kind = "git") =>
        /\ Len(body.commits) <= HistoryLimit
        /\ Len(body.commits) = Len(CommitRows)

---------------------------------------------------------------------------
(* C6 *)

\* C6: when git log fails, by a non-zero exit or by not starting at all,
\* /api/git answers 200 with an empty 'commits' list, never 500 (a failure
\* to write the body set aside).
C6_GitFailureIsEmptyList ==
    (GitDone /\ (~gitRun.spawned \/ gitRun.returncode # 0)
       /\ (gitRun.spawned => wrote)) =>
        /\ statuses = <<200>>
        /\ body = GitBody(<<>>)

---------------------------------------------------------------------------
(* C7 *)

\* The snapshot the document and the repositories of this request give:
\* per id the last matching row's fields and its probes' results.
CurrentSnapshot ==
    [ id \in { TableRows[k].id : k \in 1..Len(TableRows) } |->
        LET k == CHOOSE j \in 1..Len(TableRows) :
                    TableRows[j].id = id /\ LastOfItsId(TableRows, j)
        IN  [name        |-> TableRows[k].name,
             status      |-> <<TableRows[k].glyph>>,
             status_text |-> TableRows[k].text,
             progress    |-> TableRows[k].pct,
             commits     |-> get_module_commits(probes[k].exists,
                                                probes[k].revlist),
             lastActive  |-> get_last_activity(probes[k].exists,
                                               probes[k].log)] ]

\* C7: whatever the earlier requests were and however they ended, the
\* answer to GET /api/status is decided by the document and repositories
\* of this request: 500 alone for an unreadable document, otherwise 200
\* first and, the body written, the snapshot of the current document; and
\* the server is still running.
C7_RequestsAreIndependent ==
    StatusDone =>
        /\ server = "running"
        /\ ~docRead.readable => statuses = <<500>> /\ body = ErrorBody
        /\ docRead.readable =>
             /\ Len(statuses) >= 1 /\ statuses[1] = 200
             /\ wrote => /\ statuses = <<200>>
                         /\ body = StatusBody(CurrentSnapshot)

\* C7, witness: the request before this one was a GET /api/status that
\* ended in 500, and this one returned 200 with a non-empty snapshot.
C7_Witness ==
    /\ StatusDone
    /\ prev = [path |-> "/api/status", statuses |-> <<500>>]
    /\ docRead.readable
    /\ statuses = <<200>>
    /\ body.kind = "status"
    /\ DOMAIN body.modules # {}

---------------------------------------------------------------------------
(* C8 *)

\* C8: every non-blank line of git's output that splits into fewer than
\* two segments has an entry whose message is the line and whose hash is
\* empty.
C8_ShortLineKept ==
    (GitDone /\ body.kind = "git") =>
        LET lines == SplitLines(LogText(gitRun.log), 1) IN
        \A k \in 1..Len(lines) :
            (Strip(lines[k]) # <<>>
               /\ Len(SplitWhitespace(lines[k], 1, 2)) < 2)
            => \E e \in 1..Len(body.commits) :
                   /\ body.commits[e].message = lines[k]
                   /\ body.commits[e].hash = <<>>

---------------------------------------------------------------------------
(* C9 *)

\* C9: every commit of git's output, whatever graph columns precede it,
\* has an entry whose hash is the first 7 characters of its abbreviated
\* hash and whose message is the rest of its line; and no entry's hash is
\* made of graph characters.
C9_HashIsCommitHash ==
    (GitDone /\ gitRun.returncode = 0 /\ body.kind = "git") =>
        /\ \A k \in 1..Len(CommitRows) :
             \E e \in 1..Len(body.commits) :
                 /\ body.commits[e].hash = Prefix(CommitRows[k].hash, 7)
                 /\ body.commits[e].message = CommitRows[k].subject
        /\ \A e \in 1..Len(body.commits) :
             \E c \in 1..Len(body.commits[e].hash) :
                 body.commits[e].hash[c] \notin GraphChars

---------------------------------------------------------------------------
(* C10 *)

\* C10: no record of a snapshot has an empty lastActive; a module whose
\* directory exists and whose git exited 0 with output that is no count,
\* respectively no date (empty output included), has commits 0,
\* respectively lastActive "Never".
C10_MalformedOutputDegrades ==
    (StatusDone /\ body.kind = "status") =>
        /\ \A id \in DOMAIN body.modules :
             body.modules[id].lastActive # <<>>
        /\ \A k \in 1..Len(TableRows) :
             (LastOfItsId(TableRows, k) /\ probes[k].exists) =>
                /\ (probes[k].revlist.spawned
                      /\ probes[k].revlist.returncode = 0
                      /\ ~IsInt(probes[k].revlist.stdout))
                   => body.modules[TableRows[k].id].commits = 0
                /\ (probes[k].log.spawned
                      /\ probes[k].log.returncode = 0
                      /\ Strip(probes[k].log.stdout) = <<>>)
                   => body.modules[TableRows[k].id].lastActive = Never

---------------------------------------------------------------------------
(* C11 *)

\* C11: the handling of a GET /api/status or GET /api/git passes exactly
\* one status, 200 or 500, to send_response / send_error, whichever step
\* fails, the write of the body after the 200 headers included; a 200 is
\* never followed by a 500 on the same request.
C11_ExactlyOneStatus ==
    (StatusDone \/ GitDone) =>
        /\ Len(statuses) = 1
        /\ statuses[1] \in {200, 500}
        /\ \A i, j \in 1..Len(statuses) :
             (i < j /\ statuses[i] = 200) => statuses[j] # 500

=============================================================================
